---- MODULE Spec2Model ----
(***************************************************************************)
(* The snake game of the_snake.py as a state machine.                      *)
(*                                                                         *)
(* Coordinates are pixel pairs <<x, y>>, multiples of GRID_SIZE, exactly   *)
(* as the program stores them.  Python's None is the empty tuple <<>>.     *)
(* One iteration of the loop of main() is the action Tick; the KEYDOWN and *)
(* QUIT events that handle_keys drains before it are the actions KeyDown   *)
(* and Quit.  Drawing changes no game state and is left out.               *)
(***************************************************************************)
EXTENDS Integers, Sequences, FiniteSets

\* The grid is HalfWidth*2 by HalfHeight*2 cells (the program: 32 by 24), so
\* that, as in the program, the screen centre is a cell of the grid.
HalfWidth == 2
HalfHeight == 2
\* A snake of up to MaxLength cells is followed wherever the keys take it; a
\* longer one only along the tour of the grid (see tour_direction).
MaxLength == 4
\* The key presses of one tick a claim about whole drains ranges over.
MaxEvents == 2

GRID_SIZE == 20
SCREEN_WIDTH == 2 * HalfWidth * GRID_SIZE
SCREEN_HEIGHT == 2 * HalfHeight * GRID_SIZE
GRID_WIDTH == SCREEN_WIDTH \div GRID_SIZE
GRID_HEIGHT == SCREEN_HEIGHT \div GRID_SIZE

UP == <<0, -1>>
DOWN == <<0, 1>>
LEFT == <<-1, 0>>
RIGHT == <<1, 0>>
Directions == {UP, DOWN, LEFT, RIGHT}

None == <<>>

\* The keys of a KEYDOWN event: the four arrows and any other key.
Keys == {"K_UP", "K_DOWN", "K_LEFT", "K_RIGHT", "K_OTHER"}

VARIABLES
    snake,          \* the Snake object: length, positions, old_position,
                    \* direction, next_direction
    apple,          \* Apple.position
    pc,             \* "running", "quit" (SystemExit) or "crashed" (IndexError)
    ticks,          \* has a tick completed yet
    used_direction, \* the direction the last tick's move used
    did_reset,      \* the last tick's move called reset()
    relocated       \* the last tick assigned the apple a new position

vars == <<snake, apple, pc, ticks, used_direction, did_reset, relocated>>

----------------------------------------------------------------------------
\* GameObject.__init__: every game object starts at the screen centre.
GameObject_position == <<SCREEN_WIDTH \div 2, SCREEN_HEIGHT \div 2>>

\* set(x) of a list of cells: its cells.
set_of_list(l) == {l[i] : i \in 1..Len(l)}

\* set(x) of one coordinate pair: its two numbers.  A number is written <<n>>
\* so that, as in Python, it is a value different from every cell.
set_of_point(p) == {<<p[i]>> : i \in 1..Len(p)}

available_positions ==
    {<<x * GRID_SIZE, y * GRID_SIZE>> : x \in 0..(GRID_WIDTH - 1), y \in 0..(GRID_HEIGHT - 1)}

\* A faulty randomize_position: the snake's cells are not taken out.
randomize_position_anywhere(occupied) == available_positions

\* A faulty randomize_position: with no cell free, any cell is taken.
randomize_position_fallback(occupied) ==
    IF available_positions \ occupied = {}
    THEN available_positions
    ELSE available_positions \ occupied

\* Apple.randomize_position: the cells choice() may return, given set(snake_positions).
randomize_position(occupied) == available_positions \ occupied

\* Snake.__init__
Snake_init(direction) ==
    [length |-> 1,
     positions |-> <<GameObject_position>>,
     old_position |-> None,
     direction |-> direction,
     next_direction |-> None]

\* Snake.update_direction
update_direction(s) ==
    IF s.next_direction # None
    THEN [s EXCEPT !.direction = s.next_direction, !.next_direction = None]
    ELSE s

get_head_position(s) == s.positions[1]

\* A faulty new_position: the remainder keeps the sign of a negative sum.
new_position_remainder(cur_head, direction) ==
    LET rem(a, b) == IF a < 0 THEN -((-a) % b) ELSE a % b
    IN  <<rem(cur_head[1] + direction[1] * GRID_SIZE, SCREEN_WIDTH),
          rem(cur_head[2] + direction[2] * GRID_SIZE, SCREEN_HEIGHT)>>

\* The new head of Snake.move.
new_position(cur_head, direction) ==
    <<(cur_head[1] + direction[1] * GRID_SIZE) % SCREEN_WIDTH,
      (cur_head[2] + direction[2] * GRID_SIZE) % SCREEN_HEIGHT>>

\* positions[2:]
positions_from_2(s) == SubSeq(s.positions, 3, Len(s.positions))

\* A faulty collides: the test is the wrong way round.
collides_inverted(s) ==
    new_position(get_head_position(s), s.direction) \notin set_of_list(positions_from_2(s))

\* A faulty collides: the tail, about to move away, is not tested.
collides_spares_tail(s) ==
    new_position(get_head_position(s), s.direction) \in
        set_of_list(SubSeq(s.positions, 3, Len(s.positions) - 1))

\* The test of Snake.move, negated: the new head is in positions[2:].
collides(s) ==
    new_position(get_head_position(s), s.direction) \in set_of_list(positions_from_2(s))

\* Snake.reset: a fresh snake with a direction drawn by choice().
reset == {Snake_init(d) : d \in Directions}

\* A faulty advance: the tail is never popped.
advance_keep_tail(s, ate) ==
    [s EXCEPT !.positions = <<new_position(get_head_position(s), s.direction)>> \o s.positions,
              !.length = IF ate THEN s.length + 1 ELSE s.length]

\* A faulty advance: the apple is ignored, the snake never grows.
advance_never_grows(s, ate) ==
    LET inserted == <<new_position(get_head_position(s), s.direction)>> \o s.positions
    IN  [s EXCEPT !.positions = SubSeq(inserted, 1, Len(inserted) - 1),
                  !.old_position = inserted[Len(inserted)]]

\* A faulty advance: the popped tail is not recorded.
advance_forgets_tail(s, ate) ==
    LET inserted == <<new_position(get_head_position(s), s.direction)>> \o s.positions
        len == IF ate THEN s.length + 1 ELSE s.length
    IN  IF Len(inserted) > len
        THEN [s EXCEPT !.positions = SubSeq(inserted, 1, Len(inserted) - 1),
                       !.length = len]
        ELSE [s EXCEPT !.positions = inserted, !.length = len]

\* The branch of Snake.move that moves: insert the head, grow, pop the tail.
advance(s, ate) ==
    LET inserted == <<new_position(get_head_position(s), s.direction)>> \o s.positions
        len == IF ate THEN s.length + 1 ELSE s.length
    IN  IF Len(inserted) > len
        THEN [s EXCEPT !.positions = SubSeq(inserted, 1, Len(inserted) - 1),
                       !.length = len,
                       !.old_position = inserted[Len(inserted)]]
        ELSE [s EXCEPT !.positions = inserted, !.length = len]

\* A faulty move: a collision only shortens and re-centres the snake.
move_partial_reset(s, ate) ==
    IF ~collides(s)
    THEN {advance(s, ate)}
    ELSE {[s EXCEPT !.length = 1, !.positions = <<GameObject_position>>]}

\* Snake.move: the snakes it can leave behind (ate: an apple was passed).
move(s, ate) == IF ~collides(s) THEN {advance(s, ate)} ELSE reset

\* The direction a key asks for (None: the key is no arrow), and opposites.
requested(key) ==
    CASE key = "K_UP" -> UP
      [] key = "K_DOWN" -> DOWN
      [] key = "K_LEFT" -> LEFT
      [] key = "K_RIGHT" -> RIGHT
      [] OTHER -> None

opposite(d) == <<-d[1], -d[2]>>

\* A faulty events_dict_get: every arrow key is taken, a reversal too.
events_dict_get_reversible(key, direction) == requested(key)

\* handle_keys' events_dict.get((event.key, direction))
events_dict_get(key, direction) ==
    CASE key = "K_UP" /\ direction \in {LEFT, RIGHT} -> UP
      [] key = "K_DOWN" /\ direction \in {LEFT, RIGHT} -> DOWN
      [] key = "K_LEFT" /\ direction \in {UP, DOWN} -> LEFT
      [] key = "K_RIGHT" /\ direction \in {UP, DOWN} -> RIGHT
      [] OTHER -> None

\* handle_keys, the branch of one KEYDOWN event.
key_down(s, key) == [s EXCEPT !.next_direction = events_dict_get(key, s.direction)]

\* handle_keys over the KEYDOWN events of one call, in order.
RECURSIVE handle_keys(_, _)
handle_keys(s, events) ==
    IF events = <<>> THEN s ELSE handle_keys(key_down(s, Head(events)), Tail(events))

\* A faulty ate_apple: the tail, not the head, is compared with the apple.
ate_at_tail(s, apple_position) == s.positions[Len(s.positions)] = apple_position

\* A faulty ate_apple: the apple is eaten when the head arrives on it.
ate_on_arrival(s, apple_position) ==
    new_position(get_head_position(s), s.direction) = apple_position

\* main(): snake.get_head_position() == apple.position
ate_apple(s, apple_position) == get_head_position(s) = apple_position

\* A tour of all cells that returns to its start: the row of the centre and
\* every second row from it run RIGHT, the rows between run LEFT, and the last
\* cell of each row leads DOWN.
tour_direction(c) ==
    LET col == c[1] \div GRID_SIZE
        row == c[2] \div GRID_SIZE
    IN  IF (row - HalfHeight) % 2 = 0
        THEN (IF col = GRID_WIDTH - 1 THEN DOWN ELSE RIGHT)
        ELSE (IF col = 0 THEN DOWN ELSE LEFT)

\* The snake lies along the tour and heads along it.
along_tour(s) ==
    /\ s.direction = tour_direction(get_head_position(s))
    /\ \A i \in 2..Len(s.positions) :
          new_position(s.positions[i], tour_direction(s.positions[i])) = s.positions[i - 1]

----------------------------------------------------------------------------
\* main(): snake = Snake(); apple = Apple().  Apple.__init__ passes its own
\* position, one coordinate pair, to randomize_position.
Init ==
    /\ snake = Snake_init(RIGHT)
    /\ apple \in randomize_position(set_of_point(GameObject_position))
    /\ pc = "running"
    /\ ticks = FALSE
    /\ used_direction = None
    /\ did_reset = FALSE
    /\ relocated = FALSE

\* handle_keys, one KEYDOWN event.
KeyDown(key) ==
    /\ pc = "running"
    /\ snake' = key_down(snake, key)
    /\ UNCHANGED <<apple, pc, ticks, used_direction, did_reset, relocated>>

\* handle_keys, a QUIT event: pygame.quit(); raise SystemExit.
Quit ==
    /\ pc = "running"
    /\ pc' = "quit"
    /\ UNCHANGED <<snake, apple, ticks, used_direction, did_reset, relocated>>

\* The rest of one iteration of main()'s loop, the events drained:
\* update_direction, then move and, if the head was on the apple,
\* randomize_position, whose choice() raises IndexError when no cell is free.
\* The first conjunct under IN only bounds the search (see MaxLength).
Tick ==
    /\ pc = "running"
    /\ LET s == update_direction(snake)
           ate == ate_apple(s, apple)
           grown == IF ate /\ ~collides(s) THEN s.length + 1 ELSE s.length
       IN  /\ grown <= MaxLength \/ along_tour(s)
           /\ \E moved \in move(s, ate) :
                /\ snake' = moved
                /\ used_direction' = s.direction
                /\ did_reset' = collides(s)
                /\ IF ate
                   THEN LET free == randomize_position(set_of_list(moved.positions))
                        IN  IF free = {}
                            THEN /\ pc' = "crashed"
                                 /\ relocated' = FALSE
                                 /\ UNCHANGED apple
                            ELSE /\ apple' \in free
                                 /\ relocated' = TRUE
                                 /\ UNCHANGED pc
                   ELSE /\ relocated' = FALSE
                        /\ UNCHANGED <<apple, pc>>
    /\ ticks' = TRUE

Next ==
    \/ \E key \in Keys : KeyDown(key)
    \/ Quit
    \/ Tick

Spec == Init /\ [][Next]_vars

----------------------------------------------------------------------------
\* A step of Tick: the only action that changes the body.
TickStep == snake'.positions # snake.positions

center == GameObject_position

\* One cell further along one axis, the edges joined, written without modulo.
one_cell_away(c, d, size) ==
    IF d = 1 THEN (IF c = size - GRID_SIZE THEN 0 ELSE c + GRID_SIZE)
    ELSE IF d = -1 THEN (IF c = 0 THEN size - GRID_SIZE ELSE c - GRID_SIZE)
    ELSE c

\* The start state of a snake, whatever its direction.
fresh_start(s) ==
    /\ s.length = 1
    /\ s.positions = <<center>>
    /\ s.next_direction = None
    /\ s.old_position = None
    /\ s.direction \in Directions

\* C1: in every state between ticks (after Snake.move moved, grew or reset)
\* the body has exactly snake.length cells.
C1_BodyHasLengthCells == Len(snake.positions) = snake.length

\* C1 witness: a tick has just grown the snake to three cells or more.
C1_Witness == ticks /\ relocated /\ ~did_reset /\ snake.length >= 3

\* C2: a move that does not collide puts the head one cell from the old head
\* in the direction used, leaving an edge re-entering at the opposite edge.
C2_HeadOneCellAway ==
    [][(TickStep /\ ~did_reset') =>
         snake'.positions[1] =
            <<one_cell_away(snake.positions[1][1], used_direction'[1], SCREEN_WIDTH),
              one_cell_away(snake.positions[1][2], used_direction'[2], SCREEN_HEIGHT)>>]_vars

\* C2 witness: a move LEFT has just taken the head from column 0 to the last column.
C2_Witness ==
    /\ ticks /\ ~did_reset /\ used_direction = LEFT
    /\ snake.positions[1][1] = SCREEN_WIDTH - GRID_SIZE

\* C3: a request for the opposite of the current direction leaves the pending
\* direction as it was, whatever it held.
C3_OppositeIgnored ==
    [][\A key \in Keys :
         (requested(key) = opposite(snake.direction) /\ KeyDown(key)) =>
            snake'.next_direction = snake.next_direction]_vars

\* The arrow-key presses one call of handle_keys may drain, up to MaxEvents.
RequestSeqs == UNION {[1..n -> {key \in Keys : requested(key) # None}] : n \in 0..MaxEvents}

\* The last of the requests that is not the opposite of direction, or None.
RECURSIVE last_valid(_, _)
last_valid(events, direction) ==
    IF events = <<>> THEN None
    ELSE LET key == events[Len(events)]
         IN  IF requested(key) # opposite(direction)
             THEN requested(key)
             ELSE last_valid(SubSeq(events, 1, Len(events) - 1), direction)

\* C4: whatever requests handle_keys drains at the start of a tick, the
\* direction the tick's move uses is the last of them that is not the opposite
\* of the current direction (the current direction if there is none).
C4_LastValidRequestWins ==
    \A events \in RequestSeqs :
        snake.next_direction = None =>
            update_direction(handle_keys(snake, events)).direction =
                IF last_valid(events, snake.direction) # None
                THEN last_valid(events, snake.direction)
                ELSE snake.direction

\* C5: a move whose new head is a body cell of index 2 or later leaves the
\* snake in its start state, with one of the four directions.
C5_CollisionResets ==
    [][(TickStep /\ collides(update_direction(snake))) => fresh_start(snake')]_vars

\* C5 witness: a reset has just happened.
C5_Witness == ticks /\ did_reset /\ fresh_start(snake)

right_of(c) == <<one_cell_away(c[1], 1, SCREEN_WIDTH), c[2]>>

\* The start of the scenario of C6: the fresh snake at the centre, about to
\* move RIGHT, the apple on the cell to its right.
apple_ahead_at_start ==
    /\ ~ticks
    /\ apple = right_of(center)
    /\ update_direction(snake).direction = RIGHT

\* C6 as stated: from that start one tick eats: the head was on the apple, the
\* snake has two cells [new head, old head] and the apple is off both.
C6_OneTickEats ==
    [][(TickStep /\ apple_ahead_at_start) =>
         /\ get_head_position(snake) = apple
         /\ snake'.length = 2
         /\ snake'.positions = <<right_of(center), center>>
         /\ relocated'
         /\ apple' \notin {right_of(center), center}]_vars

\* C6 amended: from that start the first tick only brings the head onto the
\* apple (one cell, apple in place); the tick after it, still moving RIGHT,
\* eats: two cells [new head, old head], the apple relocated off both.
C6_SecondTickEats ==
    [][TickStep =>
         /\ apple_ahead_at_start =>
               /\ get_head_position(snake) # apple
               /\ snake'.length = 1
               /\ snake'.positions = <<right_of(center)>>
               /\ ~relocated'
               /\ apple' = apple
         /\ (/\ ticks
             /\ snake.positions = <<right_of(center)>>
             /\ apple = right_of(center)
             /\ update_direction(snake).direction = RIGHT) =>
               /\ get_head_position(snake) = apple
               /\ snake'.length = 2
               /\ snake'.positions = <<right_of(right_of(center)), right_of(center)>>
               /\ relocated'
               /\ apple' \notin {right_of(right_of(center)), right_of(center)}]_vars

\* C6 witness: the second tick of the scenario has just eaten.
C6_Witness ==
    /\ ticks /\ relocated /\ used_direction = RIGHT
    /\ snake.old_position = center
    /\ snake.positions = <<right_of(right_of(center)), right_of(center)>>

\* C7: an apple the loop has just relocated is on a cell of the grid that is
\* no cell of the snake; with one cell free it is on that cell.
C7_RelocatedOffSnake ==
    relocated =>
        /\ apple \notin set_of_list(snake.positions)
        /\ LET free == available_positions \ set_of_list(snake.positions)
           IN  Cardinality(free) = 1 => free = {apple}

\* C7 witness: the apple has just been relocated with one cell free.
C7_Witness ==
    /\ relocated
    /\ Cardinality(set_of_list(snake.positions)) = Cardinality(available_positions) - 1

\* C8: the apple's first cell is never the snake's first cell, the centre.
C8_AppleStartsOffSnake == ~ticks => apple # center

\* C9 as stated: no tick's move uses the opposite of the direction the tick
\* before it used, resets included.
C9_NeverReversed ==
    [][(TickStep /\ ticks) => used_direction' # opposite(used_direction)]_vars

\* C9 amended: unless the tick before reset the snake, no tick's move uses the
\* opposite of the direction the tick before it used.
C9_NeverReversedWithoutReset ==
    [][(TickStep /\ ticks /\ ~did_reset) => used_direction' # opposite(used_direction)]_vars

\* C9 witness: two ticks in a row without reset, the second after a turn.
C9_Witness ==
    /\ ticks /\ ~did_reset /\ Len(snake.positions) >= 3
    /\ new_position(snake.positions[3], used_direction) # snake.positions[2]

\* C10 as stated: the apple is relocated on a tick exactly when the head was
\* on it at the start of the tick and the move did not reset.
C10_RelocatedIffAteAndMoved ==
    [][TickStep => (relocated' <=> (get_head_position(snake) = apple /\ ~did_reset'))]_vars

\* C10 amended: the apple is relocated on a tick exactly when the head was on
\* it at the start of the tick and a free cell was left, reset or not.
C10_RelocatedIffAte ==
    [][TickStep => (relocated' <=> (get_head_position(snake) = apple /\ pc' # "crashed"))]_vars

\* C10 witness: a tick has both reset the snake and relocated the apple.
C10_Witness == ticks /\ did_reset /\ relocated

\* A cell of the grid, in pixels: both coordinates are multiples of the cell
\* size, not negative and below the screen's width and height.
in_grid(c) ==
    /\ c[1] >= 0 /\ c[1] < SCREEN_WIDTH /\ c[1] % GRID_SIZE = 0
    /\ c[2] >= 0 /\ c[2] < SCREEN_HEIGHT /\ c[2] % GRID_SIZE = 0

\* C11: every cell of the snake and the apple's cell are inside the grid.
C11_AllInsideGrid ==
    /\ \A i \in 1..Len(snake.positions) : in_grid(snake.positions[i])
    /\ in_grid(apple)

\* C11 witness: a snake of two cells or more has just left the top edge and
\* re-entered in the last row.
C11_Witness ==
    /\ ticks /\ ~did_reset /\ used_direction = UP /\ Len(snake.positions) >= 2
    /\ snake.positions[1][2] = SCREEN_HEIGHT - GRID_SIZE

\* C12: the press of a key that is no arrow changes neither the snake (its
\* pending and current direction, body and length) nor the apple.
C12_UnmappedKeyChangesNothing ==
    [][KeyDown("K_OTHER") => UNCHANGED <<snake, apple>>]_vars

\* The snake covers the whole grid.
board_full(s) == Cardinality(set_of_list(s.positions)) = GRID_WIDTH * GRID_HEIGHT

\* C13: a relocation called with the snake on every cell chooses no cell: it
\* fails (the IndexError of choice() on an empty tuple, which nothing catches)
\* and the apple stays where it was.
C13_FullBoardFails ==
    [][(TickStep /\ get_head_position(snake) = apple /\ board_full(snake')) =>
         (pc' = "crashed" /\ apple' = apple)]_vars

\* C13 witness: the snake has just filled the grid and the relocation failed.
C13_Witness == pc = "crashed" /\ board_full(snake) /\ ~relocated

\* C14: the loop stops only when a QUIT event arrives.
C14_OnlyQuitStops == pc \in {"running", "quit"}

\* The head a tick's move computes for s, the pending direction applied,
\* written without modulo.
expected_head(s) ==
    LET d == update_direction(s).direction
        h == s.positions[1]
    IN  <<one_cell_away(h[1], d[1], SCREEN_WIDTH), one_cell_away(h[2], d[2], SCREEN_HEIGHT)>>

\* C15: a move resets the snake exactly when its new head is a cell of the
\* body before the move at index 2 or later, the tail included; a reset
\* leaves the start state (no head added, no growth), and otherwise the new
\* head is added.
C15_ResetIffHeadHitsBody ==
    [][TickStep =>
         LET hit == \E i \in 3..Len(snake.positions) :
                        snake.positions[i] = expected_head(snake)
         IN  /\ fresh_start(snake') <=> hit
             /\ ~hit => snake'.positions[1] = expected_head(snake)]_vars

\* C15 witness: a tick on which the head was not on the apple has just reset.
C15_Witness == ticks /\ did_reset /\ ~relocated /\ fresh_start(snake)

\* C16: a tick that does not collide puts the new head before the whole old
\* body and adds 1 to length if the head was on the apple; if not it puts the
\* new head before the old body without its last cell, keeps length and
\* records that last cell as old_position.
C16_GrowOrShift ==
    [][(TickStep /\ ~did_reset') =>
         IF get_head_position(snake) = apple
         THEN /\ snake'.positions = <<expected_head(snake)>> \o snake.positions
              /\ snake'.length = snake.length + 1
         ELSE /\ snake'.positions =
                    <<expected_head(snake)>> \o
                        SubSeq(snake.positions, 1, Len(snake.positions) - 1)
              /\ snake'.length = snake.length
              /\ snake'.old_position = snake.positions[Len(snake.positions)]]_vars

\* C16 witness: a snake of three cells or more has just moved without eating.
C16_Witness ==
    /\ ticks /\ ~did_reset /\ ~relocated /\ pc = "running"
    /\ Len(snake.positions) >= 3 /\ snake.old_position # None

\* C17: no cell is in the snake's body twice.
C17_NoCellTwice == Cardinality(set_of_list(snake.positions)) = Len(snake.positions)

\* C17 witness: a snake of four cells or more, its head next to its tail.
C17_Witness ==
    /\ ticks /\ ~did_reset /\ Len(snake.positions) >= 4
    /\ \E d \in Directions :
          new_position(get_head_position(snake), d) = snake.positions[Len(snake.positions)]

\* C18: old_position, when set, is no cell of the snake's body.
C18_OldPositionOffBody ==
    snake.old_position # None => snake.old_position \notin set_of_list(snake.positions)

\* C19: while the loop runs the apple is on no cell of the body but, at most, the head.
C19_AppleOnlyUnderHead ==
    pc # "crashed" => \A i \in 2..Len(snake.positions) : snake.positions[i] # apple

\* C19 witness: the head of a snake of two cells or more has just arrived on the apple.
C19_Witness ==
    /\ ticks /\ pc = "running" /\ ~did_reset /\ Len(snake.positions) >= 2
    /\ get_head_position(snake) = apple

\* C20: a tick resets the snake only if its body had four cells or more.
C20_ShortSnakeNeverResets ==
    [][(Tick /\ did_reset') => Len(snake.positions) >= 4]_vars

\* C20 witness: a snake of exactly three cells has just turned, without a reset.
C20_Witness ==
    /\ ticks /\ ~did_reset /\ Len(snake.positions) = 3
    /\ new_position(snake.positions[3], used_direction) # snake.positions[2]

====
